---- MODULE Spec2Model ----
(***************************************************************************)
(* A model of x_transformers/x_transformers.py: the relative-position     *)
(* bias, the gated feed-forward projection, multi-head attention and the   *)
(* encoder / decoder stacks.                                               *)
(***************************************************************************)
EXTENDS Integers, Sequences, FiniteSets, TLC

VARIABLES
    \* RelativePositionBias: the constructed module and its last forward call
    rpb_causal,        \* self.causal
    rpb_num_buckets,   \* self.num_buckets
    rpb_rel_pos,       \* two entries of rel_pos (k - q) of the last forward
    rp_bucket,         \* their entries of rp_bucket
    rpb_result,        \* "none" | "ok" | "ZeroDivisionError" | "IndexError"
    long_cast,         \* how this build casts a non-finite float to long
    \* FeedForward: two constructed modules and their last forward call
    ff_glu,            \* the glu flag both were constructed with
    ff_proj,           \* <<a, b>>: the input projection's [w, b] rows of each
    ff_lin,            \* the output nn.Linear both share: [w, b]
    ff_x,              \* the input (one position, dim = 1)
    ff_out,            \* <<>> or <<FeedForward a (x), FeedForward b (x)>>
    \* Attention: the constructed module and its last forward call(s)
    att_causal,        \* self.causal
    att_heads,         \* self.heads (dim = 1, dim_head = 1)
    att_rel_pos,       \* whether a RelativePositionBias is passed as rel_pos
    att_x,             \* x: a sequence of numbers (batch = 1, dim = 1)
    att_alt,           \* <<>>, or the x of a second call with the same
                       \* module and the same other arguments
    att_context,       \* context: <<>> for None, or a sequence
    att_mask,          \* mask: <<>> for None, or a sequence of booleans
    att_context_mask,  \* context_mask, likewise
    att_result,        \* "none" | "ok" | "RuntimeError"
    att_dots,          \* dots of each call as softmax reads them
    att_out,           \* the result of each call
    \* Attention at the level of tensor shapes
    shp_dim,           \* dim
    shp_heads,         \* heads
    shp_dim_head,      \* dim_head
    shp_causal,        \* causal
    shp_x,             \* the shape of x: <<b, n, dim>>
    shp_context,       \* None, or the shape of context: <<b, m, dim>>
    shp_mask,          \* None, or the shape of mask: <<b, n>>
    shp_context_mask,  \* None, or the shape of context_mask: <<b, m>>
    shp_rel_pos,       \* None, or the RelativePositionBias passed as rel_pos
    shp_result,        \* "none" | "ok" | "RuntimeError"
    shp_out,           \* the shape of the result
    \* Encoder / Decoder: the constructed stack and its last forward call
    stk_module,        \* what __init__ built: kind, dim, layers, rel_pos
    stk_x,             \* x: [shape |-> <<1, n, dim>>, val |-> a number]
    stk_context,       \* None, or the shape of context
    stk_mask,          \* None, or the shape of mask
    stk_context_mask,  \* None, or the shape of context_mask
    stk_calls,         \* the sublayer applications of the call, in order
    stk_result,        \* "none" | "ok" | "RuntimeError"
    stk_out,           \* the value returned
    \* tensors and their storage: the caller's tensors, the parameters of
    \* the module under call and the output of its last forward
    frm_module,        \* the module the caller holds
    frm_seed,          \* selects the contents the tensors start with
    frm_heap,          \* storage id -> content
    frm_args,          \* the arguments of the last forward, <<>> before it
    frm_out,           \* the storage of the last output, 0 before it
    frm_touched,       \* storages older than the last call it wrote in place
    frm_writes,        \* how many storages the last call wrote in place
    frm_same           \* a repeated call returned what the first did

rpb_vars == <<rpb_causal, rpb_num_buckets, rpb_rel_pos, rp_bucket, rpb_result,
              long_cast>>

ff_vars == <<ff_glu, ff_proj, ff_lin, ff_x, ff_out>>

shp_vars == <<shp_dim, shp_heads, shp_dim_head, shp_causal, shp_x, shp_context,
              shp_mask, shp_context_mask, shp_rel_pos, shp_result, shp_out>>

stk_vars == <<stk_module, stk_x, stk_context, stk_mask, stk_context_mask,
              stk_calls, stk_result, stk_out>>

frm_vars == <<frm_module, frm_seed, frm_heap, frm_args, frm_out, frm_touched,
              frm_writes, frm_same>>

att_vars == <<att_causal, att_heads, att_rel_pos, att_x, att_alt, att_context,
              att_mask, att_context_mask, att_result, att_dots, att_out>>

vars == <<rpb_vars, ff_vars, att_vars, shp_vars, stk_vars, frm_vars>>

\* The variables of the other components, which an action leaves alone.
not_rpb == <<ff_vars, att_vars, shp_vars, stk_vars, frm_vars>>

not_ff == <<rpb_vars, att_vars, shp_vars, stk_vars, frm_vars>>

not_att == <<rpb_vars, ff_vars, shp_vars, stk_vars, frm_vars>>

not_shp == <<rpb_vars, ff_vars, att_vars, stk_vars, frm_vars>>

not_stk == <<rpb_vars, ff_vars, att_vars, shp_vars, frm_vars>>

not_frm == <<rpb_vars, ff_vars, att_vars, shp_vars, stk_vars>>

(***************************************************************************)
(* Bounds of the explored inputs.                                          *)
(***************************************************************************)
\* num_buckets of a constructed RelativePositionBias ranges over
\* 1..MaxNumBuckets (plus the two large sizes of LargeNumBuckets below).
MaxNumBuckets == 8
\* Largest |k - q| an entry of rel_pos takes (sequence lengths up to MaxPos + 1).
MaxPos == 129
\* dim * mult of a FeedForward (dim = 1).
MaxInner == 1
\* Inputs of a FeedForward are integers of magnitude at most MaxAbsX.
MaxAbsX == 2
\* Heads of an Attention module.
MaxHeads == 2
\* Length of x in the single-call specification of Attention.
MaxQuery == 2
\* Length of a context.
MaxCtx == 3
\* Length of x in the two-call specification of Attention.
MaxSeq == 3
\* Model dimension, head dimension, batch size and sequence lengths of the
\* shape-level specifications.
MaxDim == 2
MaxDimHead == 2
MaxBatch == 2
MaxLen == 3
\* Depth of an Encoder or Decoder, and the values of its input.
MaxDepth == 2
MaxVal == 2
\* Contents of a storage are 0..MaxContent; seeds of the initial contents.
MaxContent == 6
MaxSeed == 1

(***************************************************************************)
(* Integer helpers.                                                        *)
(***************************************************************************)
Abs(x) == IF x < 0 THEN -x ELSE x

Max(a, b) == IF a >= b THEN a ELSE b

Min(a, b) == IF a <= b THEN a ELSE b

RECURSIVE Pow(_, _)
Pow(a, k) == IF k = 0 THEN 1 ELSE a * Pow(a, k - 1)

\* min(a^k, cap) for a >= 1, computed without leaving 0..cap * a.
RECURSIVE PowSat(_, _, _)
PowSat(a, k, cap) ==
    IF k = 0 THEN Min(1, cap)
    ELSE LET p == PowSat(a, k - 1, cap)
         IN  IF p > cap \div a THEN cap ELSE p * a

(***************************************************************************)
(* RelativePositionBias                                                    *)
(***************************************************************************)
\* The default of the max_distance parameter of _relative_position_bucket.
\* forward() never passes max_distance, so this is the value always in use.
DefaultMaxDistance == 128

\* Width of a torch long.  The code's width is 64 bits; the model keeps the
\* two's-complement wrap-around but in LongBits bits, the widest that
\* 32-bit integers allow.  Only the sign of (huge value + small value) is
\* ever observed.
LongBits == 30

LongMin == -Pow(2, LongBits - 1)

LongMax == Pow(2, LongBits - 1) - 1

\* Addition of two longs with two's-complement wrap-around.
WrapLong(x) == ((x - LongMin) % Pow(2, LongBits)) + LongMin

\* Tensor.long() of a non-finite float is undefined behaviour of the C++
\* cast, and what it gives depends on the build: a truncating conversion
\* (x86 cvttsd2si) gives the minimum for every non-finite input, a
\* saturating conversion (ARM fcvtzs) gives 0, the maximum and the minimum.
LongCasts == {"truncating", "saturating"}

LongOfNonFinite(kind, cast) ==
    IF cast = "truncating" THEN LongMin
    ELSE CASE kind = "nan"    -> 0
           [] kind = "posinf" -> LongMax
           [] kind = "neginf" -> LongMin

\* (log(n / max_exact) / log(max_distance / max_exact) * span).long(), capped
\* at span - 1, for n >= max_exact >= 1 and max_distance > max_exact, where
\* span = num_buckets - max_exact.  The quotient of logarithms is >= 0, so
\* .long() is the floor, and floor(r * span) >= t iff
\*     (max_distance / max_exact)^t <= (n / max_exact)^span
\* iff max_distance^t * max_exact^(span - t) <= n^span, decided in integers.
\* The logarithms are taken as exact reals (float rounding is not modelled).
\* The clamp written one too high: torch.full_like(val_if_large, num_buckets).
LogStepsClampOffByOne(n, max_exact, max_distance, span) ==
    LET cap == Pow(max_distance, span) * max_exact
        npow == PowSat(n, span, cap)
        ok == {t \in 0..span :
                 Pow(max_distance, t) * Pow(max_exact, span - t) <= npow}
    IN  CHOOSE t \in ok : \A u \in ok : u <= t

LogSteps(n, max_exact, max_distance, span) ==
    LET cap == Pow(max_distance, span - 1) * max_exact
        npow == PowSat(n, span, cap)
        ok == {t \in 0..(span - 1) :
                 Pow(max_distance, t) * Pow(max_exact, span - t) <= npow}
    IN  CHOOSE t \in ok : \A u \in ok : u <= t

\* val_if_large (lines 45-48) at an entry with n >= max_exact, on a build
\* whose float-to-long cast is `cast`.
\* val_if_large without its leading "max_exact +".
ValIfLargeNoOffset(n, num_buckets, max_distance, cast) ==
    LET max_exact == num_buckets \div 2
        span == num_buckets - max_exact
    IN  IF max_distance = max_exact
        THEN LET kind == IF n = max_exact THEN "nan"
                         ELSE IF n > max_exact THEN "posinf" ELSE "neginf"
             IN  Min(LongOfNonFinite(kind, cast), num_buckets - 1)
        ELSE LogSteps(n, max_exact, max_distance, span)

ValIfLarge(n, num_buckets, max_distance, cast) ==
    LET max_exact == num_buckets \div 2
        span == num_buckets - max_exact
    IN  IF max_distance = max_exact
        THEN \* math.log(1.0) = 0.0: the quotient is 0/0 or x/0, times span > 0
             LET kind == IF n = max_exact THEN "nan"
                         ELSE IF n > max_exact THEN "posinf" ELSE "neginf"
             IN  Min(WrapLong(max_exact + LongOfNonFinite(kind, cast)),
                     num_buckets - 1)
        ELSE \* min(max_exact + floor, num_buckets - 1), and
             \* num_buckets - 1 = max_exact + span - 1
             max_exact + LogSteps(n, max_exact, max_distance, span)

\* _relative_position_bucket (lines 31-51) at one entry of relative_position:
\* the exception it raises ("none" when it returns) and the value it
\* returns on a build whose float-to-long cast is `cast`.  torch.where(is_small, n, val_if_large) keeps val_if_large
\* only where n >= max_exact, so it is evaluated only there.
\* max_distance / max_exact is a division of Python ints and raises
\* ZeroDivisionError when max_exact = 0.
relative_position_bucket(relative_position, causal, num_buckets, max_distance, cast) ==
    LET n0 == -relative_position
        nb == IF causal THEN num_buckets \div 2 ELSE num_buckets
        ret == IF causal /\ n0 < 0 THEN nb ELSE 0
        n == IF causal THEN Abs(n0) ELSE Max(n0, 0)
        max_exact == nb \div 2
        is_small == n < max_exact
    IN  IF max_exact = 0
        THEN [raised |-> "ZeroDivisionError", value |-> 0]
        ELSE [raised |-> "none",
              value |-> ret + (IF is_small THEN n
                               ELSE ValIfLarge(n, nb, max_distance, cast))]

\* max_exact as _relative_position_bucket computes it (lines 35-36, 42).
MaxExactOf(causal, num_buckets) ==
    (IF causal THEN num_buckets \div 2 ELSE num_buckets) \div 2

\* Sizes at which max_exact reaches max_distance (non-causal 256, causal 512).
LargeNumBuckets == {2 * DefaultMaxDistance, 4 * DefaultMaxDistance}

\* The constructions explored: every small size, and the large sizes at
\* which max_exact = max_distance.  (Sizes with max_exact > max_distance, and
\* sizes in between, need powers beyond 32-bit integers.)
RpbConfigs ==
    {c \in BOOLEAN \X ((1..MaxNumBuckets) \cup LargeNumBuckets) :
        \/ c[2] <= MaxNumBuckets
        \/ MaxExactOf(c[1], c[2]) = DefaultMaxDistance}

Offsets == (-MaxPos)..MaxPos

\* nn.Embedding(num_buckets, heads) lookup (line 59): an index outside
\* 0..num_buckets-1 raises IndexError.
InTable(b, num_buckets) == b \in 0..(num_buckets - 1)

RpbIdle ==
    /\ rpb_rel_pos = <<>>
    /\ rp_bucket = <<>>
    /\ rpb_result = "none"

RpbInit ==
    /\ \E c \in RpbConfigs : rpb_causal = c[1] /\ rpb_num_buckets = c[2]
    /\ long_cast \in LongCasts
    /\ RpbIdle

\* RelativePositionBias.forward (lines 53-61), observed at two entries of
\* the (i, j) matrices rel_pos and rp_bucket.
RelPosForward ==
    /\ RpbIdle
    /\ \E r1 \in Offsets, r2 \in Offsets :
        LET o1 == relative_position_bucket(r1, rpb_causal, rpb_num_buckets,
                                           DefaultMaxDistance, long_cast)
            o2 == relative_position_bucket(r2, rpb_causal, rpb_num_buckets,
                                           DefaultMaxDistance, long_cast)
        IN  /\ rpb_rel_pos' = <<r1, r2>>
            /\ IF o1.raised # "none"
               THEN /\ rp_bucket' = <<>>
                    /\ rpb_result' = o1.raised
               ELSE /\ rp_bucket' = <<o1.value, o2.value>>
                    /\ rpb_result' =
                          IF /\ InTable(o1.value, rpb_num_buckets)
                             /\ InTable(o2.value, rpb_num_buckets)
                          THEN "ok" ELSE "IndexError"
            /\ UNCHANGED <<rpb_causal, rpb_num_buckets, long_cast>>
            /\ UNCHANGED not_rpb

\* The caller drops the result; the module is ready for its next call.
RelPosRelease ==
    /\ rpb_result # "none"
    /\ rpb_rel_pos' = <<>>
    /\ rp_bucket' = <<>>
    /\ rpb_result' = "none"
    /\ UNCHANGED <<rpb_causal, rpb_num_buckets, long_cast>>
    /\ UNCHANGED not_rpb

\* No RelativePositionBias is under test.
RpbOff ==
    /\ rpb_causal = FALSE
    /\ rpb_num_buckets = 0
    /\ long_cast = "truncating"
    /\ RpbIdle

BucketNext == RelPosForward \/ RelPosRelease

(***************************************************************************)
(* GEGLU and FeedForward                                                   *)
(***************************************************************************)
\* Activations are fixed-point numbers with four decimals.
GeluScale == 10000

\* F.gelu(x) = x * Phi(x) at an integer x, rounded to four decimals.
Gelu(x) ==
    CASE x <= -5 -> 0
      [] x = -4 -> -1
      [] x = -3 -> -40
      [] x = -2 -> -455
      [] x = -1 -> -1587
      [] x = 0  -> 0
      [] x = 1  -> 8413
      [] x = 2  -> 19545
      [] x = 3  -> 29960
      [] x = 4  -> 39999
      [] x >= 5 -> x * GeluScale

\* nn.Linear(1, Len(rows)) applied to the scalar x: one feature per row.
LinearIn(rows, x) == [k \in 1..Len(rows) |-> rows[k].w * x + rows[k].b]

\* Tensor.chunk(2, dim = -1)
Chunk2(h) ==
    <<SubSeq(h, 1, Len(h) \div 2), SubSeq(h, Len(h) \div 2 + 1, Len(h))>>

\* The conventional gated unit: the first half times the GELU of the gate.
GEGLUGated(rows, x) ==
    LET c == Chunk2(LinearIn(rows, x))
    IN  [k \in 1..Len(c[1]) |-> c[1][k] * Gelu(c[2][k])]

\* GEGLU.forward (lines 90-92): x, gate = proj(x).chunk(2); x * gelu(x).
GEGLU(rows, x) ==
    LET c == Chunk2(LinearIn(rows, x))
        xh == c[1]
        gate == c[2]
    IN  [k \in 1..Len(xh) |-> xh[k] * Gelu(xh[k])]

\* nn.Sequential(nn.Linear(dim, dim * mult), nn.GELU()) (lines 98-100).
LinearGelu(rows, x) ==
    LET h == LinearIn(rows, x) IN [k \in 1..Len(h) |-> Gelu(h[k])]

RECURSIVE Dot(_, _)
Dot(a, b) == IF Len(a) = 0 THEN 0 ELSE Head(a) * Head(b) + Dot(Tail(a), Tail(b))

\* nn.Linear(dim * mult, dim_out) on fixed-point activations (dim_out = 1).
LinearOut(lin, act) == Dot(lin.w, act) + lin.b * GeluScale

\* FeedForward.forward (lines 94-110): project_in, Dropout(0.) (the
\* identity), nn.Linear.
FeedForward(glu, rows, lin, x) ==
    LinearOut(lin, IF glu THEN GEGLU(rows, x) ELSE LinearGelu(rows, x))

ProjRow == [w : -1..1, b : 0..1]

\* The rows of project_in: dim_out * 2 of them for GEGLU (line 88), dim * mult
\* for the plain projection (line 99).
ProjRows(glu, inner) ==
    [1..(IF glu THEN 2 * inner ELSE inner) -> ProjRow]

FFIdle == ff_out = <<>>

FFInit ==
    /\ ff_glu \in BOOLEAN
    /\ \E inner \in 1..MaxInner :
          /\ ff_proj \in ProjRows(ff_glu, inner) \X ProjRows(ff_glu, inner)
          /\ ff_lin \in [w : [1..inner -> 1..2], b : 0..1]
    /\ ff_x \in (-MaxAbsX)..MaxAbsX
    /\ FFIdle

\* One forward call of each of the two modules on the same input.
FFForward ==
    /\ FFIdle
    /\ ff_out' = <<FeedForward(ff_glu, ff_proj[1], ff_lin, ff_x),
                   FeedForward(ff_glu, ff_proj[2], ff_lin, ff_x)>>
    /\ UNCHANGED <<ff_glu, ff_proj, ff_lin, ff_x>>
    /\ UNCHANGED not_ff

\* The caller drops the outputs and presents the next input.
FFRelease ==
    /\ ~FFIdle
    /\ ff_out' = <<>>
    /\ ff_x' \in (-MaxAbsX)..MaxAbsX
    /\ UNCHANGED <<ff_glu, ff_proj, ff_lin>>
    /\ UNCHANGED not_ff

\* No FeedForward is under test.
FFOff ==
    /\ ff_glu = FALSE
    /\ ff_proj = <<>>
    /\ ff_lin = <<>>
    /\ ff_x = 0
    /\ FFIdle

FFNext == FFForward \/ FFRelease

(***************************************************************************)
(* Attention                                                               *)
(*                                                                         *)
(* batch = 1, dim = 1 and dim_head = 1, so scale = dim_head ** -0.5 = 1;  *)
(* a tensor (b, h, i, j) is a function [head][query][key].  Numbers are    *)
(* exact: a logit is an integer or NegInf, an output is a fraction         *)
(* <<numerator, denominator>> in lowest terms, and <<0, 0>> is NaN.        *)
(* exp is modelled by 2^x: positive at every finite logit, 0 at -inf.      *)
(***************************************************************************)
\* float('-inf') as a logit; every finite logit of the model is >= 0.
NegInf == -1

None == <<>>

RECURSIVE Gcd(_, _)
Gcd(a, b) == IF b = 0 THEN a ELSE Gcd(b, a % b)

NaN == <<0, 0>>

IsNaN(f) == f[2] = 0

\* A fraction in lowest terms; anything over 0 is NaN (0/0: no infinity
\* arises, every numerator being a finite sum).
Frac(num, den) ==
    IF den = 0 THEN NaN
    ELSE LET g == Gcd(Abs(num), den) IN <<num \div g, den \div g>>

FracAdd(f, g) == Frac(f[1] * g[2] + g[1] * f[2], f[2] * g[2])

FracScale(c, f) == Frac(c * f[1], f[2])

\* The parameters of the module: to_q, to_kv (keys and values) and to_out,
\* one weight per head since dim = dim_head = 1 (lines 121-123).
Wq(h) == 1

Wk(h) == 1 + (h % 2)

Wv(h) == h

Wo(h) == 1

OutBias == 1

\* The shared bias as Encoder and Decoder construct it:
\* RelativePositionBias(causal = True), num_buckets = 32 (lines 24, 162).
DefaultNumBuckets == 32

\* relative_attention_bias.weight[b, h]
BiasTable(b, h) == (b + h) % 2

\* RelativePositionBias.forward (lines 53-61): qk_dots + bias, a new tensor.
\* Every entry of rp_bucket is in the table for the lengths of the model.
RelPosBias(dots, n, m) ==
    [h \in DOMAIN dots |-> [i \in 1..n |-> [j \in 1..m |->
        dots[h][i][j] +
        BiasTable(relative_position_bucket(j - i, TRUE, DefaultNumBuckets,
                      DefaultMaxDistance, "truncating").value, h)]]]

\* default(val, d) for a mask (lines 16-19, 139-140): all ones when None.
DefaultMask(val, len) == IF val = None THEN [k \in 1..len |-> TRUE] ELSE val

\* Lines 141-144: mask = q_mask * k_mask; dots.masked_fill_(mask, -inf)
\* fills the entries at which mask is true.
PaddingFill(q_mask, k_mask, i, j) == q_mask[i] /\ k_mask[j]

\* The causal mask shifted by one: triu_(2).
CausalFillShifted(i, j) == j > i + 1

\* Line 148: torch.ones((n, n)).triu_(1).bool() is true strictly above the
\* diagonal.
CausalFill(i, j) == j > i

\* masked_fill_ broadcasts the (n, n) causal mask onto (b, h, n, m): the
\* trailing dimension must be m or 1 (lines 148-149).
CausalBroadcasts(n, m) == n = m \/ n = 1

\* softmax(dim = -1) of one row, times v: sum_j w_j v_j / sum_j w_j with
\* w_j = 2^logit, and w_j = 0 at -inf.  A row of -inf alone is 0/0.
RowWeight(d) == IF d = NegInf THEN 0 ELSE Pow(2, d)

RECURSIVE SumTo(_, _)
SumTo(f, m) == IF m = 0 THEN 0 ELSE f[m] + SumTo(f, m - 1)

AttendRow(row, v, m) ==
    Frac(SumTo([j \in 1..m |-> RowWeight(row[j]) * v[j]], m),
         SumTo([j \in 1..m |-> RowWeight(row[j])], m))

\* to_out over the concatenated heads (lines 154-155).
RECURSIVE ToOut(_, _)
ToOut(heads_out, h) ==
    IF h = 0 THEN <<OutBias, 1>>
    ELSE FracAdd(FracScale(Wo(h), heads_out[h]), ToOut(heads_out, h - 1))

\* Attention.forward (lines 125-155).
AttentionForward(causal, heads, x, context, mask, context_mask, rel_pos) ==
    LET n == Len(x)
        kv_input == IF context = None THEN x ELSE context
        m == Len(kv_input)
        q == [h \in 1..heads |-> [i \in 1..n |-> Wq(h) * x[i]]]
        k == [h \in 1..heads |-> [j \in 1..m |-> Wk(h) * kv_input[j]]]
        v == [h \in 1..heads |-> [j \in 1..m |-> Wv(h) * kv_input[j]]]
        dots0 == [h \in 1..heads |-> [i \in 1..n |-> [j \in 1..m |->
                    q[h][i] * k[h][j]]]]
        dots1 == IF rel_pos THEN RelPosBias(dots0, n, m) ELSE dots0
        masked == mask # None \/ context_mask # None
        q_mask == DefaultMask(mask, n)
        k_mask == DefaultMask(context_mask, m)
        dots2 == IF masked
                 THEN [h \in 1..heads |-> [i \in 1..n |-> [j \in 1..m |->
                        IF PaddingFill(q_mask, k_mask, i, j)
                        THEN NegInf ELSE dots1[h][i][j]]]]
                 ELSE dots1
        \* the (n, n) mask at (i, j) of (n, m): itself when n = m, its only
        \* entry (false) when n = 1
        dots3 == IF causal
                 THEN [h \in 1..heads |-> [i \in 1..n |-> [j \in 1..m |->
                        IF n = m /\ CausalFill(i, j)
                        THEN NegInf ELSE dots2[h][i][j]]]]
                 ELSE dots2
        out == [i \in 1..n |->
                 ToOut([h \in 1..heads |-> AttendRow(dots3[h][i], v[h], m)],
                       heads)]
    IN  IF causal /\ ~CausalBroadcasts(n, m)
        THEN [result |-> "RuntimeError", dots |-> <<>>, out |-> <<>>]
        ELSE [result |-> "ok", dots |-> dots3, out |-> out]

Tokens == 1..2

SeqsUpTo(S, len) == UNION {[1..l -> S] : l \in 1..len}

\* None, or a boolean mask of the given length.
MaskChoices(len) == {None} \cup [1..len -> BOOLEAN]

AttIdle ==
    /\ att_result = "none"
    /\ att_dots = <<>>
    /\ att_out = <<>>

AttConfigInit ==
    /\ att_causal \in BOOLEAN
    /\ att_heads \in 1..MaxHeads
    /\ att_rel_pos \in BOOLEAN

\* One call: self-attention or cross-attention, any masks of the right
\* lengths.
AttInit ==
    /\ AttConfigInit
    /\ att_x \in SeqsUpTo(Tokens, MaxQuery)
    /\ att_alt = <<>>
    /\ att_context \in {None} \cup SeqsUpTo(Tokens, MaxCtx)
    /\ att_mask \in MaskChoices(Len(att_x))
    /\ att_context_mask \in
          MaskChoices(Len(IF att_context = None THEN att_x ELSE att_context))
    /\ AttIdle

\* Two calls of self-attention whose inputs differ at exactly one position.
AttTwinInit ==
    /\ AttConfigInit
    /\ att_x \in SeqsUpTo(Tokens, MaxSeq)
    /\ att_alt \in {y \in [1..Len(att_x) -> Tokens] :
                      Cardinality({p \in 1..Len(att_x) : y[p] # att_x[p]}) = 1}
    /\ att_context = None
    /\ att_mask \in MaskChoices(Len(att_x))
    /\ att_context_mask \in MaskChoices(Len(att_x))
    /\ AttIdle

AttCall(x) ==
    AttentionForward(att_causal, att_heads, x, att_context, att_mask,
                     att_context_mask, att_rel_pos)

\* forward(x, ...), and forward(alt, ...) when a second input is given.
AttForward ==
    /\ AttIdle
    /\ LET a == AttCall(att_x)
       IN  /\ att_result' = a.result
           /\ IF att_alt = <<>>
              THEN att_dots' = <<a.dots>> /\ att_out' = <<a.out>>
              ELSE LET b == AttCall(att_alt)
                   IN  att_dots' = <<a.dots, b.dots>> /\ att_out' = <<a.out, b.out>>
    /\ UNCHANGED <<att_causal, att_heads, att_rel_pos, att_x, att_alt,
                   att_context, att_mask, att_context_mask>>
    /\ UNCHANGED not_att

\* The caller drops the results.
AttRelease ==
    /\ ~AttIdle
    /\ att_result' = "none"
    /\ att_dots' = <<>>
    /\ att_out' = <<>>
    /\ UNCHANGED <<att_causal, att_heads, att_rel_pos, att_x, att_alt,
                   att_context, att_mask, att_context_mask>>
    /\ UNCHANGED not_att

\* No Attention is under test.
AttOff ==
    /\ att_causal = FALSE
    /\ att_heads = 0
    /\ att_rel_pos = FALSE
    /\ att_x = <<>>
    /\ att_alt = <<>>
    /\ att_context = None
    /\ att_mask = None
    /\ att_context_mask = None
    /\ AttIdle

AttNext == AttForward \/ AttRelease

(***************************************************************************)
(* Attention at the level of shapes: a tensor is the sequence of its       *)
(* dimensions.  An operation gives [ok, shape]; ok is false when torch     *)
(* raises a RuntimeError for the shapes.                                   *)
(***************************************************************************)
Shape(s) == [ok |-> TRUE, shape |-> s]

ShapeError == [ok |-> FALSE, shape |-> <<>>]

\* The dimensions of s right-aligned in rank r, padded with ones.
PadTo(s, r) ==
    [k \in 1..r |-> IF k <= r - Len(s) THEN 1 ELSE s[k - (r - Len(s))]]

\* The shape of a + b under broadcasting.
Broadcast(a, b) ==
    LET r == Max(Len(a), Len(b))
        pa == PadTo(a, r)
        pb == PadTo(b, r)
    IN  IF \A k \in 1..r : pa[k] = pb[k] \/ pa[k] = 1 \/ pb[k] = 1
        THEN Shape([k \in 1..r |-> Max(pa[k], pb[k])])
        ELSE ShapeError

\* An in-place operation broadcasts its argument onto the target, whose
\* shape stays.
BroadcastsTo(arg, target) ==
    /\ Len(arg) <= Len(target)
    /\ LET pa == PadTo(arg, Len(target))
       IN  \A k \in 1..Len(target) : pa[k] = target[k] \/ pa[k] = 1

\* nn.Linear(in_features, out_features) on a tensor of shape s.
LinearShape(s, in_features, out_features) ==
    IF s[Len(s)] = in_features
    THEN Shape([s EXCEPT ![Len(s)] = out_features])
    ELSE ShapeError

\* heads of RelativePositionBias.__init__ (line 24), also Attention's default.
DefaultHeads == 8

\* RelativePositionBias.__init__ (lines 24-29) with the default num_buckets
\* and max_distance: the table relative_attention_bias is
\* (num_buckets, heads).
RelativePositionBias(causal, heads) ==
    [causal |-> causal, num_buckets |-> DefaultNumBuckets, heads |-> heads]

\* RelativePositionBias.forward (lines 53-61) on dots (b, h, i, j):
\* bias is (1, heads, i, j), the result qk_dots + bias.
RelPosBiasShape(rel_pos, dots) ==
    Broadcast(dots, <<1, rel_pos.heads, dots[3], dots[4]>>)

\* Line 148: torch.ones((n, n)), n the length of x.
CausalMaskShape(n, m) == <<n, n>>

\* einsum('b h i j, b h j d -> b h i d'): b and h broadcast, j must agree.
EinsumOut(attn, v) ==
    LET bh == Broadcast(<<attn[1], attn[2]>>, <<v[1], v[2]>>)
    IN  IF bh.ok /\ attn[4] = v[3]
        THEN Shape(<<bh.shape[1], bh.shape[2], attn[3], v[4]>>)
        ELSE ShapeError

\* Attention.forward (lines 125-155) on shapes.
AttentionShape(dim, heads, dim_head, causal, x, context, mask, context_mask, rel_pos) ==
    LET b == x[1]
        n == x[2]
        inner_dim == dim_head * heads
        kv_input == IF context = None THEN x ELSE context
        q == LinearShape(x, dim, inner_dim)
        kv == LinearShape(kv_input, dim, inner_dim * 2)
        \* chunk(2, dim = -1) and rearrange 'b n (h d) -> b h n d'
        q4 == <<b, heads, n, dim_head>>
        k4 == <<kv_input[1], heads, kv_input[2], dim_head>>
        dots0 == IF q4[1] = k4[1] THEN Shape(<<b, heads, n, k4[3]>>)
                 ELSE ShapeError
        dots1 == IF dots0.ok /\ rel_pos # None
                 THEN RelPosBiasShape(rel_pos, dots0.shape) ELSE dots0
        dots == dots1.shape
        q_mask == IF mask = None THEN <<b, dots[3]>> ELSE mask
        k_mask == IF context_mask = None THEN <<b, dots[4]>> ELSE context_mask
        pad == Broadcast(<<q_mask[1], 1, q_mask[2], 1>>,
                         <<k_mask[1], 1, 1, k_mask[2]>>)
        pad_ok == (mask = None /\ context_mask = None)
                    \/ (pad.ok /\ BroadcastsTo(pad.shape, dots))
        causal_ok == ~causal \/ BroadcastsTo(CausalMaskShape(n, dots[4]), dots)
        out4 == EinsumOut(dots, k4)
        out3 == <<out4.shape[1], out4.shape[3], out4.shape[2] * out4.shape[4]>>
    IN  IF ~(q.ok /\ kv.ok /\ dots1.ok) THEN ShapeError
        ELSE IF ~(pad_ok /\ causal_ok /\ out4.ok) THEN ShapeError
        ELSE LinearShape(out3, inner_dim, dim)

\* heads of a module or of a bias: 1, 2 and the default.
HeadChoices == {1, 2, DefaultHeads}

ShpIdle == shp_result = "none" /\ shp_out = <<>>

\* A constructed Attention and the arguments of a call: x (b, n, dim), a
\* context (b, m, dim) or None, masks (b, n) and (b, m) or None, and as
\* rel_pos None, a RelativePositionBias constructed with the module's head
\* count, or the one Encoder and Decoder construct (lines 162, 183).
ShpInit ==
    /\ shp_dim \in 1..MaxDim
    /\ shp_heads \in HeadChoices
    /\ shp_dim_head \in 1..MaxDimHead
    /\ shp_causal \in BOOLEAN
    /\ \E b \in 1..MaxBatch, n \in 1..MaxLen :
          /\ shp_x = <<b, n, shp_dim>>
          /\ shp_context \in {None} \cup {<<b, m, shp_dim>> : m \in 1..MaxLen}
          /\ shp_mask \in {None, <<b, n>>}
          /\ shp_context_mask \in
                {None, <<b, (IF shp_context = None THEN n ELSE shp_context[2])>>}
    /\ shp_rel_pos \in {None, RelativePositionBias(FALSE, shp_heads),
                         RelativePositionBias(TRUE, DefaultHeads)}
    /\ ShpIdle

ShpForward ==
    /\ ShpIdle
    /\ LET r == AttentionShape(shp_dim, shp_heads, shp_dim_head, shp_causal,
                               shp_x, shp_context, shp_mask, shp_context_mask,
                               shp_rel_pos)
       IN  /\ shp_result' = IF r.ok THEN "ok" ELSE "RuntimeError"
           /\ shp_out' = r.shape
    /\ UNCHANGED <<shp_dim, shp_heads, shp_dim_head, shp_causal, shp_x,
                   shp_context, shp_mask, shp_context_mask, shp_rel_pos>>
    /\ UNCHANGED not_shp

\* The caller drops the result (or handles the error).
ShpRelease ==
    /\ ~ShpIdle
    /\ shp_result' = "none"
    /\ shp_out' = <<>>
    /\ UNCHANGED <<shp_dim, shp_heads, shp_dim_head, shp_causal, shp_x,
                   shp_context, shp_mask, shp_context_mask, shp_rel_pos>>
    /\ UNCHANGED not_shp

\* No shape-level Attention is under test.
ShpOff ==
    /\ shp_dim = 0 /\ shp_heads = 0 /\ shp_dim_head = 0
    /\ shp_causal = FALSE
    /\ shp_x = <<>>
    /\ shp_context = None /\ shp_mask = None /\ shp_context_mask = None
    /\ shp_rel_pos = None
    /\ ShpIdle

ShpNext == ShpForward \/ ShpRelease

(***************************************************************************)
(* Encoder and Decoder                                                     *)
(***************************************************************************)
\* Lines 162 and 183: RelativePositionBias(causal = True) if rel_pos_bias
\* else None; heads is not passed on, so the table has the default 8.
StackRelPos(rel_pos_bias, heads) ==
    IF rel_pos_bias THEN RelativePositionBias(TRUE, DefaultHeads) ELSE None

\* Attention.__init__ as a layer holds it.
AttentionModule(dim, dim_head, heads, causal) ==
    [dim |-> dim, dim_head |-> dim_head, heads |-> heads, causal |-> causal]

\* Encoder.__init__ (lines 158-171): depth layers of (self-attention,
\* feed-forward), each wrapped in PreNorm.  A missing cross-attention is
\* None.
EncoderInit(dim, depth, dim_head, heads, rel_pos_bias) ==
    [kind |-> "Encoder", dim |-> dim, heads |-> heads,
     rel_pos |-> StackRelPos(rel_pos_bias, heads),
     layers |-> [l \in 1..depth |->
        [self_attn |-> AttentionModule(dim, dim_head, heads, FALSE),
         cross_attn |-> None,
         ff |-> [dim |-> dim]]]]

\* Decoder.__init__ (lines 179-193): depth layers of (causal self-attention,
\* cross-attention or None, feed-forward).
DecoderInit(dim, depth, dim_head, heads, cross_attend, rel_pos_bias) ==
    [kind |-> "Decoder", dim |-> dim, heads |-> heads,
     rel_pos |-> StackRelPos(rel_pos_bias, heads),
     layers |-> [l \in 1..depth |->
        [self_attn |-> AttentionModule(dim, dim_head, heads, TRUE),
         cross_attn |-> IF cross_attend
                        THEN AttentionModule(dim, dim_head, heads, FALSE)
                        ELSE None,
         ff |-> [dim |-> dim]]]]

\* What a PreNorm-wrapped sublayer computes from its input, as a number:
\* some fixed function of the layer, the sublayer and the input.
SublayerCode(kind) ==
    CASE kind = "self_attn" -> 1 [] kind = "cross_attn" -> 2 [] kind = "ff" -> 3

SublayerValue(kind, l, val) == (val * (l + 1) + SublayerCode(kind)) % 5

\* PreNorm.forward around Attention.forward (lines 81-83, 125-155): whether
\* the call returns for these shapes.
AttentionReturns(a, x_shape, context, mask, context_mask, rel_pos) ==
    AttentionShape(a.dim, a.heads, a.dim_head, a.causal, x_shape, context,
                   mask, context_mask, rel_pos).ok

\* One sublayer application and its residual addition: fn(x) + x.  A call
\* is recorded with its input and what it returned; one that raises ends
\* the forward.
ApplySublayer(st, kind, l, returns) ==
    IF st.result # "ok" THEN st
    ELSE IF ~returns
    THEN [st EXCEPT !.result = "RuntimeError",
                    !.calls = Append(@, [layer |-> l, kind |-> kind,
                                         input |-> st.val, raised |-> TRUE,
                                         output |-> 0])]
    ELSE LET y == SublayerValue(kind, l, st.val)
         IN  [st EXCEPT !.val = y + st.val,
                        !.calls = Append(@, [layer |-> l, kind |-> kind,
                                             input |-> st.val, raised |-> FALSE,
                                             output |-> y])]

\* The body of Encoder.forward's loop (lines 174-175).
EncoderLayer(module, st, l, x_shape, mask) ==
    LET layer == module.layers[l]
        s1 == ApplySublayer(st, "self_attn", l,
                AttentionReturns(layer.self_attn, x_shape, None, mask, None,
                                 module.rel_pos))
    IN  ApplySublayer(s1, "ff", l, TRUE)            \* x = ff(x) + x

\* The body of Decoder.forward's loop (lines 196-199).
DecoderLayer(module, st, l, x_shape, context, mask, context_mask) ==
    LET layer == module.layers[l]
        s1 == ApplySublayer(st, "self_attn", l,
                AttentionReturns(layer.self_attn, x_shape, None, None, None,
                                 module.rel_pos))
        s2 == IF layer.cross_attn # None
              THEN ApplySublayer(s1, "cross_attn", l,
                     AttentionReturns(layer.cross_attn, x_shape, context, mask,
                                      context_mask, None))
              ELSE s1
    IN  ApplySublayer(s2, "ff", l, TRUE)            \* x = ff(x) + x

\* for ... in self.layers, from layer l on.
RECURSIVE RunLayers(_, _, _, _, _, _, _)
RunLayers(module, st, l, x_shape, context, mask, context_mask) ==
    IF l > Len(module.layers) THEN st
    ELSE RunLayers(module,
                   IF module.kind = "Encoder"
                   THEN EncoderLayer(module, st, l, x_shape, mask)
                   ELSE DecoderLayer(module, st, l, x_shape, context, mask,
                                     context_mask),
                   l + 1, x_shape, context, mask, context_mask)

\* Encoder.forward (lines 172-176) and Decoder.forward (lines 194-200).
\* Encoder.forward accepts a context and does not use it.
StackForward(module, x, context, mask, context_mask) ==
    RunLayers(module, [val |-> x.val, calls |-> <<>>, result |-> "ok"], 1,
              x.shape, context, mask, context_mask)

StkIdle ==
    /\ stk_calls = <<>>
    /\ stk_result = "none"
    /\ stk_out = 0

StkInit ==
    /\ \E dim \in 1..MaxDim, depth \in 0..MaxDepth, dim_head \in 1..MaxDimHead,
          heads \in HeadChoices, cross_attend \in BOOLEAN,
          rel_pos_bias \in BOOLEAN :
          stk_module \in {EncoderInit(dim, depth, dim_head, heads, rel_pos_bias),
                          DecoderInit(dim, depth, dim_head, heads, cross_attend,
                                      rel_pos_bias)}
    /\ \E n \in 1..MaxLen :
          /\ stk_x \in [shape : {<<1, n, stk_module.dim>>}, val : 0..MaxVal]
          /\ stk_mask \in {None, <<1, n>>}
    /\ stk_context \in
          {None} \cup {<<1, m, stk_module.dim>> : m \in 1..MaxLen}
    /\ stk_context_mask \in
          IF stk_module.kind = "Encoder" THEN {None}
          ELSE {None, <<1, (IF stk_context = None THEN stk_x.shape[2]
                            ELSE stk_context[2])>>}
    /\ StkIdle

StkForward ==
    /\ StkIdle
    /\ LET r == StackForward(stk_module, stk_x, stk_context, stk_mask,
                             stk_context_mask)
       IN  /\ stk_calls' = r.calls
           /\ stk_result' = r.result
           /\ stk_out' = r.val
    /\ UNCHANGED <<stk_module, stk_x, stk_context, stk_mask, stk_context_mask>>
    /\ UNCHANGED not_stk

\* The caller drops the result (or handles the error).
StkRelease ==
    /\ ~StkIdle
    /\ stk_calls' = <<>>
    /\ stk_result' = "none"
    /\ stk_out' = 0
    /\ UNCHANGED <<stk_module, stk_x, stk_context, stk_mask, stk_context_mask>>
    /\ UNCHANGED not_stk

\* No stack is under test.
StkOff ==
    /\ stk_module = <<>>
    /\ stk_x = <<>>
    /\ stk_context = None /\ stk_mask = None /\ stk_context_mask = None
    /\ StkIdle

StkNext == StkForward \/ StkRelease

(***************************************************************************)
(* Tensors and storage                                                     *)
(*                                                                         *)
(* A tensor is a reference to a storage; a view shares the storage of its  *)
(* base, an in-place operation (masked_fill_, triu_, +=) writes the        *)
(* storage of its target, every other operation allocates a new storage.  *)
(* The content of a storage is a number that every operation derives from  *)
(* the contents it reads, so that a write to a storage shows in whatever   *)
(* is computed from it afterwards.                                         *)
(***************************************************************************)
\* The storages that outlive a call: the caller's tensors ...
XId == 1              \* x of Attention / Encoder / Decoder .forward
ContextId == 2        \* context
MaskId == 3           \* mask
ContextMaskId == 4    \* context_mask
TokensId == 5         \* x of TransformerWrapper.forward, the token ids
\* ... and the parameters.
TokenEmbId == 6       \* token_emb.weight (line 261)
PosEmbId == 7         \* pos_emb.weight (line 262)
NormId == 8           \* norm of TransformerWrapper (line 264)
RelPosId == 9         \* relative_attention_bias.weight (line 29)
LayerBase == 9
\* layer l: the PreNorm-wrapped self-attention, cross-attention, feed-forward
SelfAttnId(l) == LayerBase + 3 * (l - 1) + 1
CrossAttnId(l) == LayerBase + 3 * (l - 1) + 2
FFId(l) == LayerBase + 3 * (l - 1) + 3
NumKept == LayerBase + 3 * MaxDepth
\* The storage of the output the caller holds from the last call.
OutId == NumKept + 1

RECURSIVE WeightedSum(_, _)
WeightedSum(vals, i) ==
    IF i > Len(vals) THEN 0 ELSE (i + 1) * vals[i] + WeightedSum(vals, i + 1)

\* The content an operation computes from the contents it reads.
Mix(code, vals) == (code + WeightedSum(vals, 1)) % (MaxContent + 1)

\* A forward as the sequence of its tensor operations.  A name of the code
\* (a local variable, an attribute) is a register that refers to a storage.
\* dst = op(srcs), out of place: dst refers to a new storage.
New(dst, code, srcs) ==
    [op |-> "new", dst |-> dst, code |-> code, srcs |-> srcs, id |-> 0]
\* dst = src, or a view of src (chunk, rearrange, indexing): same storage.
View(dst, src) ==
    [op |-> "view", dst |-> dst, code |-> 0, srcs |-> <<src>>, id |-> 0]
\* dst.op_(srcs): writes the storage dst refers to.
InPlace(dst, code, srcs) ==
    [op |-> "inplace", dst |-> dst, code |-> code, srcs |-> srcs, id |-> 0]
\* dst = a parameter of the module, held in storage id.
Param(dst, id) ==
    [op |-> "param", dst |-> dst, code |-> 0, srcs |-> <<>>, id |-> id]

\* An embedding lookup that hands out a view of its weight.
EmbeddingLookupView(dst, weight, index) == <<View(dst, weight)>>

\* nn.Embedding.forward (lines 59, 275, 276): a gather into a new tensor.
EmbeddingLookup(dst, weight, index) == <<New(dst, 20, <<weight, index>>)>>

\* _relative_position_bucket (lines 31-51): relative_position to ret.
BucketProgram(causal) ==
    <<New("n", 21, <<"relative_position">>)>>            \* line 34
    \o (IF causal
        THEN <<New("sign", 22, <<"n">>),                 \* (n < 0).long() * ..
               New("ret", 23, <<"sign">>),               \* ret = 0 + that
               New("n", 24, <<"n">>)>>                   \* torch.abs(n)
        ELSE <<New("zeros", 25, <<"n">>),                \* zeros_like(n)
               New("n", 26, <<"n", "zeros">>)>>)         \* torch.max
    \o <<New("is_small", 27, <<"n">>),                   \* line 43
         New("val_if_large", 28, <<"n">>),               \* lines 45-47
         New("val_if_large", 29, <<"val_if_large">>),    \* torch.min
         New("where", 30, <<"is_small", "n", "val_if_large">>)>>
    \* line 50, ret += ...: in place on the tensor ret of the causal case,
    \* a new tensor when ret is still the number 0
    \o (IF causal THEN <<InPlace("ret", 31, <<"where">>)>>
        ELSE <<New("ret", 31, <<"where">>)>>)

\* RelativePositionBias.forward (lines 53-61): qk_dots to the result.
RelPosProgram(causal) ==
    <<View("qk_dots", "dots"),
      New("q_pos", 32, <<>>),                            \* torch.arange(i)
      New("k_pos", 33, <<>>),                            \* torch.arange(j)
      New("relative_position", 34, <<"k_pos", "q_pos">>)>>
    \o BucketProgram(causal)
    \o <<View("rp_bucket", "ret")>>
    \o EmbeddingLookup("values", "relative_attention_bias", "rp_bucket")
    \o <<View("bias", "values"),                         \* rearrange
         New("dots", 35, <<"qk_dots", "bias">>)>>        \* qk_dots + bias

\* Lines 138-145: the padding mask.
PaddingProgram(has_mask, has_context_mask) ==
    (IF has_mask THEN <<View("q_mask", "a.mask")>>
     ELSE <<New("ones", 11, <<>>), New("q_mask", 12, <<"ones">>)>>)
    \o (IF has_context_mask THEN <<View("k_mask", "a.context_mask")>>
        ELSE <<New("ones", 11, <<>>), New("k_mask", 12, <<"ones">>)>>)
    \o <<View("q_mask", "q_mask"),                       \* rearrange
         View("k_mask", "k_mask"),                       \* rearrange
         New("a.mask", 13, <<"q_mask", "k_mask">>),      \* mask = q_mask * k_mask
         InPlace("dots", 14, <<"a.mask">>)>>             \* dots.masked_fill_

\* Lines 147-150: the causal mask.
CausalProgram ==
    <<New("a.mask", 15, <<>>),                           \* torch.ones((n, n))
      InPlace("a.mask", 16, <<>>),                       \* .triu_(1)
      New("a.mask", 17, <<"a.mask">>),                   \* .bool()
      InPlace("dots", 18, <<"a.mask">>)>>                \* dots.masked_fill_

\* rel_pos = None, and a RelativePositionBias.
NoRelPos == [exists |-> FALSE, causal |-> FALSE]
RelPos(causal) == [exists |-> TRUE, causal |-> causal]

\* An argument that is not passed on.
NoReg == ""

\* Attention.forward (lines 125-155): its arguments are the registers
\* a.x, a.context, a.mask, a.context_mask, its parameters a.self, the bias
\* table relative_attention_bias, its result a.out.
AttentionProgram(causal, has_context, has_mask, has_context_mask, rel_pos) ==
    <<View("kv_input", IF has_context THEN "a.context" ELSE "a.x"),
      New("q", 1, <<"a.x", "a.self">>),                  \* to_q(x)
      New("kv", 2, <<"kv_input", "a.self">>),            \* to_kv(kv_input)
      View("q", "q"), View("k", "kv"), View("v", "kv"),  \* chunk, rearrange
      New("dots", 3, <<"q", "k">>),                      \* einsum
      New("dots", 4, <<"dots">>)>>                       \* * self.scale
    \o (IF rel_pos.exists THEN RelPosProgram(rel_pos.causal) ELSE <<>>)
    \o (IF has_mask \/ has_context_mask
        THEN PaddingProgram(has_mask, has_context_mask) ELSE <<>>)
    \o (IF causal THEN CausalProgram ELSE <<>>)
    \o <<New("attn", 5, <<"dots">>),                     \* softmax
         New("out", 6, <<"attn", "v">>),                 \* einsum
         New("out", 40, <<"out">>),                      \* rearrange, a copy
         New("a.out", 7, <<"out", "a.self">>)>>          \* to_out

\* x = fn(x, ...) + x for a PreNorm-wrapped Attention held in storage id
\* (lines 81-83 with 174, 196, 198): context, mask and context_mask name
\* the registers passed on, NoReg for an argument that is not.
AttentionSublayer(id, causal, context, mask, context_mask, rel_pos) ==
    <<Param("a.self", id),
      New("a.x", 8, <<"x", "a.self">>)>>                 \* self.norm(x)
    \o (IF context # NoReg THEN <<View("a.context", context)>> ELSE <<>>)
    \o (IF mask # NoReg THEN <<View("a.mask", mask)>> ELSE <<>>)
    \o (IF context_mask # NoReg
        THEN <<View("a.context_mask", context_mask)>> ELSE <<>>)
    \o AttentionProgram(causal, context # NoReg, mask # NoReg,
                        context_mask # NoReg, rel_pos)
    \o <<New("x", 9, <<"a.out", "x">>)>>                 \* ... + x

\* x = ff(x) + x (lines 175, 199) with FeedForward.forward (lines 109-110).
FeedForwardSublayer(id) ==
    <<Param("f.self", id),
      New("f.x", 8, <<"x", "f.self">>),                  \* self.norm(x)
      New("f.out", 10, <<"f.x", "f.self">>),             \* self.net(x)
      New("x", 9, <<"f.out", "x">>)>>                    \* ... + x

\* The register an argument of the call is in, NoReg if it was not given.
ArgReg(args, name) ==
    CASE name = "context" -> IF args.context = 0 THEN NoReg ELSE "context"
      [] name = "mask" -> IF args.mask = 0 THEN NoReg ELSE "mask"
      [] name = "context_mask" ->
            IF args.context_mask = 0 THEN NoReg ELSE "context_mask"

\* self.rel_pos of a stack (lines 162, 183).
StackRelPosFrame(module) ==
    IF module.rel_pos_bias THEN RelPos(TRUE) ELSE NoRelPos

\* The body of the loop of Encoder.forward (lines 174-175) and of
\* Decoder.forward (lines 196-199) for layer l.
LayerProgram(module, l, args) ==
    IF module.kind = "Encoder"
    THEN AttentionSublayer(SelfAttnId(l), FALSE, NoReg, ArgReg(args, "mask"),
                           NoReg, StackRelPosFrame(module))
         \o FeedForwardSublayer(FFId(l))
    ELSE AttentionSublayer(SelfAttnId(l), TRUE, NoReg, NoReg, NoReg,
                           StackRelPosFrame(module))
         \o (IF module.cross_attend
             THEN AttentionSublayer(CrossAttnId(l), FALSE,
                                    ArgReg(args, "context"),
                                    ArgReg(args, "mask"),
                                    ArgReg(args, "context_mask"), NoRelPos)
             ELSE <<>>)
         \o FeedForwardSublayer(FFId(l))

RECURSIVE LayersProgram(_, _, _)
LayersProgram(module, l, args) ==
    IF l > module.depth THEN <<>>
    ELSE LayerProgram(module, l, args) \o LayersProgram(module, l + 1, args)

\* Encoder.forward (lines 172-176), Decoder.forward (lines 194-200): the
\* loop over the layers from the first.
StackProgram(module, args) ==
    <<Param("relative_attention_bias", RelPosId)>>
    \o LayersProgram(module, 1, args)

\* TransformerWrapper.forward (lines 273-282).
WrapperProgram(module, args) ==
    <<Param("token_emb", TokenEmbId), Param("pos_emb", PosEmbId),
      Param("norm", NormId)>>
    \o EmbeddingLookup("x", "token_emb", "x")            \* x = token_emb(x)
    \o <<New("arange", 36, <<>>)>>                       \* torch.arange(n)
    \o EmbeddingLookup("pos", "pos_emb", "arange")       \* pos_emb(...)
    \o <<InPlace("x", 37, <<"pos">>)>>                   \* x += ...
    \o StackProgram(module.attn_layers, args)
    \o <<New("x", 38, <<"x", "norm">>)>>                 \* self.norm(x)
    \o (IF args.return_embeddings THEN <<>>
        ELSE <<New("x", 39, <<"x", "token_emb">>)>>)     \* to_logits(x)

\* module.forward(**args) up to its return; the result is in "return".
ForwardProgram(module, args) ==
    CASE module.kind = "Attention" ->
            <<Param("a.self", SelfAttnId(1)),
              Param("relative_attention_bias", RelPosId),
              View("a.x", "x")>>
            \o (IF args.context # 0 THEN <<View("a.context", "context")>>
                ELSE <<>>)
            \o (IF args.mask # 0 THEN <<View("a.mask", "mask")>> ELSE <<>>)
            \o (IF args.context_mask # 0
                THEN <<View("a.context_mask", "context_mask")>> ELSE <<>>)
            \o AttentionProgram(module.causal, args.context # 0,
                                args.mask # 0, args.context_mask # 0,
                                args.rel_pos)
            \o <<View("return", "a.out")>>
      [] module.kind \in {"Encoder", "Decoder"} ->
            StackProgram(module, args) \o <<View("return", "x")>>
      [] module.kind = "TransformerWrapper" ->
            WrapperProgram(module, args) \o <<View("return", "x")>>

\* One operation on the memory h: heap, registers, storages written in place.
Step(h, ins) ==
    LET contents == [i \in 1..Len(ins.srcs) |-> h.heap[h.env[ins.srcs[i]]]]
    IN  CASE ins.op = "new" ->
                [h EXCEPT !.heap = Append(@, Mix(ins.code, contents)),
                          !.env[ins.dst] = Len(h.heap) + 1]
          [] ins.op = "view" ->
                [h EXCEPT !.env[ins.dst] = h.env[ins.srcs[1]]]
          [] ins.op = "param" ->
                [h EXCEPT !.env[ins.dst] = ins.id]
          [] ins.op = "inplace" ->
                [h EXCEPT !.heap[h.env[ins.dst]] =
                              Mix(ins.code, <<@>> \o contents),
                          !.touched = @ \cup {h.env[ins.dst]}]

\* The operations lo..hi of a program, in order: the first half on h, the
\* second half on the memory the first half leaves.  No storage is freed
\* while the call runs.
RECURSIVE Run(_, _, _, _)
Run(program, lo, hi, h) ==
    IF lo > hi THEN h
    ELSE IF lo = hi THEN Step(h, program[lo])
    ELSE LET mid == (lo + hi) \div 2
             first == Run(program, lo, mid, h)
         IN  IF Len(first.heap) < Len(h.heap) THEN first
             ELSE Run(program, mid + 1, hi, first)

\* The registers at the entry of forward: the arguments given, 0 for None
\* and for a name not yet assigned.
EntryEnv(program, args) ==
    [r \in {"x", "context", "mask", "context_mask"}
            \cup {program[i].dst : i \in 1..Len(program)} |->
        CASE r = "x" -> args.x
          [] r = "context" -> args.context
          [] r = "mask" -> args.mask
          [] r = "context_mask" -> args.context_mask
          [] OTHER -> 0]

\* module.forward(**args) on heap: the memory at its return.
ForwardFrame(heap, module, args) ==
    LET program == ForwardProgram(module, args)
        h == Run(program, 1, Len(program),
                 [heap |-> heap, env |-> EntryEnv(program, args),
                  touched |-> {}])
    IN  [heap |-> h.heap, touched |-> h.touched, ret |-> h.env["return"]]

\* The modules a caller may hold.
StackModules ==
    [kind : {"Encoder"}, depth : 0..MaxDepth, cross_attend : {FALSE},
     rel_pos_bias : BOOLEAN]
    \cup [kind : {"Decoder"}, depth : 0..MaxDepth, cross_attend : BOOLEAN,
          rel_pos_bias : BOOLEAN]

FrameModules ==
    [kind : {"Attention"}, causal : BOOLEAN]
    \cup StackModules
    \cup [kind : {"TransformerWrapper"}, attn_layers : StackModules]

\* The arguments a forward of module accepts: Encoder.forward has no
\* context_mask, only Attention.forward takes rel_pos, TransformerWrapper
\* passes its keyword arguments on to attn_layers.
StackOf(module) ==
    IF module.kind = "TransformerWrapper" THEN module.attn_layers ELSE module

FrameArgs(module) ==
    [x : {IF module.kind = "TransformerWrapper" THEN TokensId ELSE XId},
     context : {0, ContextId},
     mask : {0, MaskId},
     context_mask : IF StackOf(module).kind = "Encoder" THEN {0}
                    ELSE {0, ContextMaskId},
     rel_pos : IF module.kind = "Attention"
               THEN {NoRelPos, RelPos(FALSE), RelPos(TRUE)}
               ELSE {NoRelPos},
     return_embeddings : IF module.kind = "TransformerWrapper" THEN BOOLEAN
                         ELSE {FALSE}]

\* What the storages hold when the caller has built its tensors and the
\* module; the output slot is empty.
InitialContent(seed, id) == (seed + 2 * id) % (MaxContent + 1)

FrmInit ==
    /\ frm_module \in FrameModules
    /\ frm_seed \in 0..MaxSeed
    /\ frm_heap = [id \in 1..OutId |->
                     IF id = OutId THEN 0 ELSE InitialContent(frm_seed, id)]
    /\ frm_args = <<>>
    /\ frm_out = 0
    /\ frm_touched = {}
    /\ frm_writes = 0
    /\ frm_same = TRUE

\* One forward call on the heap as it stands.  The caller keeps the
\* output and lets go of the one it held before; what the call allocated
\* besides is garbage.
FrmRun(args) ==
    ForwardFrame(frm_heap, frm_module, args)

FrmKeep(r) ==
    /\ frm_heap' = [id \in 1..OutId |->
                      IF id < OutId THEN r.heap[id]
                      ELSE IF r.ret > OutId THEN r.heap[r.ret] ELSE 0]
    /\ frm_out' = IF r.ret > OutId THEN OutId ELSE r.ret
    /\ frm_touched' = {id \in r.touched : id <= OutId}
    /\ frm_writes' = Cardinality(r.touched)

\* A forward with arguments of the caller's choice.
FrmForward ==
    /\ \E args \in FrameArgs(frm_module) :
          /\ args # frm_args
          /\ frm_args' = args
          /\ FrmKeep(FrmRun(args))
    /\ frm_same' = TRUE
    /\ UNCHANGED <<frm_module, frm_seed>>
    /\ UNCHANGED not_frm

\* The last forward again, with the same arguments.
FrmRepeat ==
    /\ frm_args # <<>>
    /\ LET r == FrmRun(frm_args)
       IN  /\ FrmKeep(r)
           /\ frm_same' = (/\ frm_same
                           /\ r.heap[r.ret] = frm_heap[frm_out])
    /\ UNCHANGED <<frm_module, frm_seed, frm_args>>
    /\ UNCHANGED not_frm

\* No module is under a storage-level test.
FrmOff ==
    /\ frm_module = <<>>
    /\ frm_seed = 0
    /\ frm_heap = <<>>
    /\ frm_args = <<>>
    /\ frm_out = 0
    /\ frm_touched = {}
    /\ frm_writes = 0
    /\ frm_same = TRUE

FrmNext == FrmForward \/ FrmRepeat

(***************************************************************************)
(* Specifications: one per component under test.                           *)
(***************************************************************************)
BucketSpecInit ==
    /\ RpbInit
    /\ FFOff
    /\ AttOff
    /\ ShpOff
    /\ StkOff
    /\ FrmOff

SpecBucket == BucketSpecInit /\ [][BucketNext]_vars

FFSpecInit ==
    /\ FFInit
    /\ RpbOff
    /\ AttOff
    /\ ShpOff
    /\ StkOff
    /\ FrmOff

SpecFF == FFSpecInit /\ [][FFNext]_vars

AttnSpecInit ==
    /\ AttInit
    /\ RpbOff
    /\ FFOff
    /\ ShpOff
    /\ StkOff
    /\ FrmOff

SpecAttn == AttnSpecInit /\ [][AttNext]_vars

AttnTwinSpecInit ==
    /\ AttTwinInit
    /\ RpbOff
    /\ FFOff
    /\ ShpOff
    /\ StkOff
    /\ FrmOff

SpecAttnTwin == AttnTwinSpecInit /\ [][AttNext]_vars

ShapeSpecInit ==
    /\ ShpInit
    /\ RpbOff
    /\ FFOff
    /\ AttOff
    /\ StkOff
    /\ FrmOff

SpecShape == ShapeSpecInit /\ [][ShpNext]_vars

StackSpecInit ==
    /\ StkInit
    /\ RpbOff
    /\ FFOff
    /\ AttOff
    /\ ShpOff
    /\ FrmOff

SpecStack == StackSpecInit /\ [][StkNext]_vars

FrameSpecInit ==
    /\ FrmInit
    /\ RpbOff
    /\ FFOff
    /\ AttOff
    /\ ShpOff
    /\ StkOff

SpecFrame == FrameSpecInit /\ [][FrmNext]_vars

(***************************************************************************)
(* Properties of the bucketing function.                                   *)
(***************************************************************************)
BucketsReturned == rp_bucket # <<>>

BucketsInRange ==
    /\ rpb_result = "ok"
    /\ \A m \in 1..2 : rp_bucket[m] >= 0 /\ rp_bucket[m] < rpb_num_buckets

\* C4 as stated: for every offset, in causal and non-causal mode, and every
\* num_buckets whose max_exact is at least 1, the bucket index b satisfies
\* 0 <= b < num_buckets and the lookup into the bias table succeeds.
C4_InRangeWheneverMaxExactPositive ==
    (rpb_result # "none" /\ MaxExactOf(rpb_causal, rpb_num_buckets) >= 1)
        => BucketsInRange

\* C4 amended: the same, for every num_buckets whose max_exact is at least 1
\* and smaller than max_distance (128, the value forward always uses).
C4_InRangeBelowMaxDistance ==
    (/\ rpb_result # "none"
     /\ MaxExactOf(rpb_causal, rpb_num_buckets) >= 1
     /\ MaxExactOf(rpb_causal, rpb_num_buckets) < DefaultMaxDistance)
        => BucketsInRange

\* A causal forward whose two entries lie beyond the clamp, one in the past
\* half and one in the future half, and land in the last bucket of each.
C4_Witness ==
    /\ rpb_causal /\ rpb_num_buckets = 8
    /\ rpb_rel_pos = <<-MaxPos, MaxPos>>
    /\ rp_bucket = <<3, 7>>
    /\ rpb_result = "ok"

PastHalfOrdered ==
    /\ rpb_rel_pos[1] <= 0 /\ rpb_rel_pos[2] <= 0
    /\ Abs(rpb_rel_pos[1]) <= Abs(rpb_rel_pos[2])

\* C5 as stated: in causal mode, for two offsets of the past half (k - q <= 0)
\* with |offset1| <= |offset2|, bucket(offset1) <= bucket(offset2).
C5_MonotoneInPastHalf ==
    (rpb_causal /\ BucketsReturned /\ PastHalfOrdered)
        => rp_bucket[1] <= rp_bucket[2]

\* C5 amended: the same, for every num_buckets whose max_exact is smaller
\* than max_distance.
C5_MonotoneBelowMaxDistance ==
    (/\ rpb_causal /\ BucketsReturned /\ PastHalfOrdered
     /\ MaxExactOf(rpb_causal, rpb_num_buckets) < DefaultMaxDistance)
        => rp_bucket[1] <= rp_bucket[2]

\* Two past offsets on either side of a step of the logarithmic range.
C5_Witness ==
    /\ rpb_causal /\ rpb_num_buckets = 8
    /\ rpb_rel_pos = <<-15, -16>>
    /\ rp_bucket = <<2, 3>>

(***************************************************************************)
(* Properties of GEGLU.                                                    *)
(***************************************************************************)
\* The two modules' projections agree on the rows of the first half.
FirstHalvesAgree ==
    \A k \in 1..(Len(ff_proj[1]) \div 2) : ff_proj[1][k] = ff_proj[2][k]

\* The gate halves of the two projections give different values at ff_x.
GatesDiffer ==
    Chunk2(LinearIn(ff_proj[1], ff_x))[2] # Chunk2(LinearIn(ff_proj[2], ff_x))[2]

\* C9: GEGLU projects to 2 * dim * mult features, and the output of
\* FeedForward with glu=True does not depend on the second (gate) half: two
\* projections that agree on the first half give the same output, however
\* they differ on the second.
C9_OutputIgnoresGateHalf ==
    (ff_glu /\ ff_out # <<>>) =>
        /\ Len(ff_proj[1]) = 2 * Len(ff_lin.w)
        /\ FirstHalvesAgree => ff_out[1] = ff_out[2]

\* Two gated modules that agree on the first half, whose gates differ on
\* the input, and whose common output is not zero.
C9_Witness ==
    /\ ff_glu /\ ff_out # <<>>
    /\ FirstHalvesAgree /\ GatesDiffer
    /\ ff_out[1] = ff_out[2] /\ ff_out[1] # ff_lin.b * GeluScale

(***************************************************************************)
(* Properties of Attention.                                                *)
(***************************************************************************)
AttQueries == 1..Len(att_x)

AttKeys == 1..Len(IF att_context = None THEN att_x ELSE att_context)

AttMasked == att_mask # None \/ att_context_mask # None

\* The pair (query i, key j) is valid on both sides; a missing mask is all
\* true.
ValidPair(i, j) ==
    /\ DefaultMask(att_mask, Len(att_x))[i]
    /\ DefaultMask(att_context_mask, Cardinality(AttKeys))[j]

\* C1: when a mask or a context_mask is supplied, every pair that is padding
\* on either side has its logit at -inf before the softmax, and no pair
\* valid on both sides is put at -inf by the padding mask (only the causal
\* mask may forbid it).
C1_PaddingForbidsExactlyInvalidPairs ==
    (att_result = "ok" /\ AttMasked) =>
        \A h \in 1..att_heads, i \in AttQueries, j \in AttKeys :
            /\ ~ValidPair(i, j) => att_dots[1][h][i][j] = NegInf
            /\ (ValidPair(i, j) /\ ~(att_causal /\ j > i))
                  => att_dots[1][h][i][j] # NegInf

\* C8: for every combination of mask, context_mask and causal flag, no row
\* of the result is NaN, also when every key of the row is forbidden.
C8_NoRowIsNaN ==
    att_result = "ok" => \A i \in AttQueries : ~IsNaN(att_out[1][i])

\* The positions at which the two inputs differ (exactly one).
Perturbed == {p \in AttQueries : att_x[p] # att_alt[p]}

\* C2: for a causal self-attention module and two inputs that differ only
\* at position j, the outputs at every position i < j are identical, every
\* key after the query having its logit at -inf (weight zero) in both
\* calls.
C2_CausalOutputIgnoresLaterPositions ==
    (att_causal /\ att_context = None /\ att_alt # <<>> /\ att_result = "ok")
        => \A p \in Perturbed : \A i \in 1..(p - 1) :
              /\ att_out[1][i] = att_out[2][i]
              /\ \A c \in 1..2, h \in 1..att_heads, j \in (i + 1)..Len(att_x) :
                    att_dots[c][h][i][j] = NegInf

\* Two causal calls without masks whose inputs differ at the last of three
\* positions: the outputs before it are equal numbers, the last ones differ.
C2_Witness ==
    /\ att_causal /\ att_result = "ok" /\ ~AttMasked
    /\ Len(att_x) = 3 /\ Perturbed = {3}
    /\ \A i \in 1..2 : att_out[1][i] = att_out[2][i] /\ ~IsNaN(att_out[1][i])
    /\ att_out[1][3] # att_out[2][3]

(***************************************************************************)
(* Properties of the shapes.                                               *)
(***************************************************************************)
\* C3: Attention.forward returns a tensor of the shape of x, for every
\* heads and dim_head, for self-attention and for cross-attention with a
\* context of another length, with or without masks and with or without a
\* relative-position bias.
C3_OutputShapeIsInputShape ==
    shp_result # "none" => (shp_result = "ok" /\ shp_out = shp_x)

\* Whenever forward returns, what it returns has the shape of x.
ShapeKeptWhenReturned ==
    shp_result = "ok" => shp_out = shp_x

(***************************************************************************)
(* Encoder and Decoder: the shared bias and the order of the sublayers     *)
(***************************************************************************)
\* The sublayers one layer of the stack holds, in the order of its tuple.
LayerKinds(module) ==
    IF module.kind = "Decoder" /\ Len(module.layers) > 0
       /\ module.layers[1].cross_attn # None
    THEN <<"self_attn", "cross_attn", "ff">>
    ELSE <<"self_attn", "ff">>

\* Layer by layer in construction order, every sublayer of every layer.
ExpectedCalls(module) ==
    LET kinds == LayerKinds(module)
        per == Len(kinds)
    IN  [i \in 1..(per * Len(module.layers)) |->
            <<((i - 1) \div per) + 1, kinds[((i - 1) % per) + 1]>>]

CallsMade == [i \in 1..Len(stk_calls) |-> <<stk_calls[i].layer, stk_calls[i].kind>>]

\* Every application returned, and each was followed by the addition of its
\* own input: the next sublayer (or the caller) sees output + input.
ResidualChain ==
    /\ \A i \in 1..Len(stk_calls) :
          /\ ~stk_calls[i].raised
          /\ stk_calls[i].input =
                IF i = 1 THEN stk_x.val
                ELSE stk_calls[i - 1].output + stk_calls[i - 1].input
    /\ stk_out = IF stk_calls = <<>> THEN stk_x.val
                 ELSE stk_calls[Len(stk_calls)].output
                      + stk_calls[Len(stk_calls)].input

\* C7: for every Encoder or Decoder constructed with the relative-position
\* bias enabled and any head count h, the shared bias table has exactly h
\* entries per bucket, and no self-attention of a forward call fails to
\* broadcast the bias onto its logits.
C7_SharedBiasHasStackHeads ==
    stk_module # <<>> /\ stk_module.rel_pos # None =>
        /\ stk_module.rel_pos.heads = stk_module.heads
        /\ \A i \in 1..Len(stk_calls) :
              stk_calls[i].kind = "self_attn" => ~stk_calls[i].raised

\* C6: a forward of a stack of depth d applies the layers in construction
\* order, each layer self-attention, cross-attention iff enabled, then
\* feed-forward, each followed by the residual addition; exactly d
\* self-attention and d feed-forward applications occur, and for d = 0 the
\* input is returned unchanged.
C6_EverySublayerAppliedInOrder ==
    stk_result # "none" =>
        /\ stk_result = "ok"
        /\ CallsMade = ExpectedCalls(stk_module)
        /\ ResidualChain

\* What holds of the forwards that return.
SublayersInOrderWhenReturned ==
    stk_result = "ok" =>
        /\ CallsMade = ExpectedCalls(stk_module)
        /\ ResidualChain

(***************************************************************************)
(* Storage: what a forward leaves of the tensors it was given              *)
(***************************************************************************)
\* The caller's x, context, mask, context_mask and token ids and every
\* parameter hold what they held before the first call.
FrameKept ==
    \A id \in 1..NumKept :
        id \in DOMAIN frm_heap => frm_heap[id] = InitialContent(frm_seed, id)

\* An in-place operation wrote only storage allocated in its own call.
InPlaceOnlyLocal == frm_touched = {}

\* A repeated call returned what the call before it returned.
RepeatSame == frm_same

\* The output is a tensor the call allocated.
OutputFresh == frm_out # 0 => frm_out = OutId

\* The output is a tensor the call allocated, but for a stack without
\* layers, whose forward hands back the tensor x it was given.
OutputFreshUnlessNoLayers ==
    frm_out # 0 =>
        IF frm_module.kind \in {"Encoder", "Decoder"} /\ frm_module.depth = 0
        THEN frm_out = frm_args.x
        ELSE frm_out = OutId

\* C10 as stated: after any sequence of forward calls on Attention,
\* Encoder, Decoder and TransformerWrapper the caller's tensors and the
\* parameters are unchanged, every in-place operation acted on a tensor
\* created in its call, each call returned a fresh output tensor and a
\* repeated call returned the same result.
C10_FrameKeptAndOutputFresh ==
    FrameKept /\ InPlaceOnlyLocal /\ RepeatSame /\ OutputFresh

\* C10, amended: as above, except that Encoder.forward and Decoder.forward
\* on a stack of depth 0 return the input tensor x itself and not a fresh
\* tensor.
C10_FrameKeptAndOutputFreshUnlessNoLayers ==
    FrameKept /\ InPlaceOnlyLocal /\ RepeatSame /\ OutputFreshUnlessNoLayers

\* A TransformerWrapper over a cross-attending Decoder with layers has been
\* called twice with a context and both masks: the += of the positional
\* embedding, triu_ and both masked_fill_ have written storage, and the
\* output is held by the caller.
C10_Witness ==
    /\ frm_module # <<>>
    /\ frm_module.kind = "TransformerWrapper"
    /\ frm_module.attn_layers.kind = "Decoder"
    /\ frm_module.attn_layers.depth >= 1
    /\ frm_module.attn_layers.cross_attend
    /\ frm_args # <<>>
    /\ frm_args.context = ContextId
    /\ frm_args.mask = MaskId
    /\ frm_args.context_mask = ContextMaskId
    /\ frm_writes >= 4
    /\ frm_out = OutId
    /\ frm_same

====
